---------------------------- MODULE Spec2Model ----------------------------
(***************************************************************************)
(* `ctlptl create registry [name]`: pkg/cmd/create_registry.go.            *)
(*                                                                         *)
(* Each invocation of the command is one OS process p.  It parses its      *)
(* flags into o.Registry, runs PreRun (Proxy construction), Run (controller*)
(* construction, run, exit code) and run (telemetry, Name, defaulting,     *)
(* Get, Apply, print).  The processes share one controller, whose state is *)
(* the set of registry names that exist.                                   *)
(*                                                                         *)
(* Error values are records [reason, msg]: reason is the status reason     *)
(* errors.IsNotFound looks at, msg the message as a sequence of pieces, so *)
(* that fmt.Errorf("prefix: %v", err) is a real prepend.  The nil error is *)
(* NoErr.  An optional pointer is a sequence of length 0 (nil) or 1.       *)
(***************************************************************************)
EXTENDS Naturals, Sequences, FiniteSets

VARIABLES
    registries,   \* controller: names of the registries that exist
    pc,           \* per invocation: position in PreRun / Run / run
    arg,          \* args[0], the positional name
    flags,        \* parsed flag values
    reg,          \* o.Registry
    getErr,       \* err of controller.Get (line 113); NoErr before the call
    gotten,       \* TRUE once controller.Get has returned
    applied,      \* `applied` of line 120: <<>> or <<resource>>
    applyErr,     \* err of controller.Apply (line 120)
    printErr,     \* err of ToPrinter / PrintObj (lines 125, 130)
    result,       \* the error run returns (NoErr = nil)
    exitCode,     \* <<>> while running, <<0>> or <<1>> once the process ended
    stdout,       \* o.Out: sequence of printed resources
    stderr,       \* o.ErrOut: sequence of diagnostic lines (error messages)
    trace,        \* the calls run has made, in order
    telemetry,    \* the telemetry calls that returned an error in this invocation
    staleAtApply  \* ghost: the name already existed when Apply was called

vars == <<registries, pc, arg, flags, reg, getErr, gotten, applied, applyErr,
          printErr, result, exitCode, stdout, stderr, trace, telemetry, staleAtApply>>

----------------------------------------------------------------------------
(* Bounds and input sets *)

NumInvocations == 2

Procs == 1..NumInvocations

Names == {"ctlptl-registry", "other-registry"}

Ports == {0, 5001}

ListenAddresses == {"", "0.0.0.0"}

DefaultRegistryImageRef == "docker.io/library/registry:2"

RemoteURLs == {"", "https://registry-1.docker.io"}

Usernames == {"", "user"}

Passwords == {"", "secret"}

TTLs == {"", "24h"}

FlagValues ==
    [port : Ports, listenAddress : ListenAddresses, image : {DefaultRegistryImageRef},
     proxyRemoteURL : RemoteURLs, proxyUsername : Usernames,
     proxyPassword : Passwords, proxyTTL : TTLs]

DefaultFlags ==
    [port |-> 0, listenAddress |-> "", image |-> DefaultRegistryImageRef,
     proxyRemoteURL |-> "", proxyUsername |-> "", proxyPassword |-> "",
     proxyTTL |-> ""]

----------------------------------------------------------------------------
(* Errors *)

NoErr == [reason |-> "", msg |-> <<>>]

NotFoundErr(name) == [reason |-> "NotFound", msg |-> <<"registry not found: ", name>>]

\* errors of Get that are not classified as not-found
OtherGetErrors ==
    {[reason |-> "ServiceUnavailable", msg |-> <<"connection refused">>],
     [reason |-> "", msg |-> <<"context deadline exceeded">>]}

ApplyErrors ==
    {[reason |-> "", msg |-> <<"port is already allocated">>],
     [reason |-> "AlreadyExists", msg |-> <<"registry exists">>]}

PrinterErrors == {[reason |-> "", msg |-> <<"unable to match a printer">>]}

ControllerErrors == {[reason |-> "", msg |-> <<"cannot connect to docker">>]}

AnalyticsErrors == {[reason |-> "", msg |-> <<"analytics: cannot open config">>]}

\* k8s.io/apimachinery errors.IsNotFound
IsNotFound(err) == err.reason = "NotFound"

\* fmt.Errorf(prefix + "%v", err): a new plain error, the text prepended
Errorf(prefix, err) == [reason |-> "", msg |-> <<prefix>> \o err.msg]

\* fmt.Errorf with no verb
ErrorNew(text) == [reason |-> "", msg |-> <<text>>]

----------------------------------------------------------------------------
(* Resource Builder *)

\* NewCreateRegistryOptions (lines 24-33) followed by cobra's parse into the
\* fields bound at lines 50-55.
ParseFlags(f) ==
    [Kind |-> "Registry", Name |-> "", Port |-> f.port,
     ListenAddress |-> f.listenAddress, Image |-> f.image, Proxy |-> <<>>]

ProxySpec(f) ==
    [RemoteURL |-> f.proxyRemoteURL, Username |-> f.proxyUsername,
     Password |-> f.proxyPassword, TTL |-> f.proxyTTL]

\* mutant: the Proxy is built as soon as any proxy flag is set
BuildProxyAnyFlag(f) ==
    IF f.proxyRemoteURL # "" \/ f.proxyUsername # "" \/ f.proxyPassword # ""
       \/ f.proxyTTL # ""
    THEN <<ProxySpec(f)>> ELSE <<>>

\* mutant: the credentials are not copied
BuildProxyNoCreds(f) ==
    IF f.proxyRemoteURL # ""
    THEN <<[ProxySpec(f) EXCEPT !.Username = "", !.Password = ""]>>
    ELSE <<>>

\* cmd.PreRun (lines 68-77): the value assigned to o.Registry.Proxy, <<>>
\* when it is left nil.
BuildProxy(f) ==
    IF f.proxyRemoteURL # "" THEN <<ProxySpec(f)>> ELSE <<>>

\* registry.FillDefaults: after it every required field is set (Name is the
\* required one); it fills gaps and never overwrites what is set.
FillDefaults(r) ==
    IF r.Name = "" THEN [r EXCEPT !.Name = "ctlptl-registry"] ELSE r

----------------------------------------------------------------------------
(* Existence Guard, Create Invoker, output: the decisions of run and Run *)

\* mutant: a found resource does not stop the workflow
GuardIgnoresFound(err) ==
    IF err # NoErr /\ ~IsNotFound(err)
    THEN [proceed |-> FALSE, result |-> Errorf("Cannot check registry: ", err)]
    ELSE [proceed |-> TRUE, result |-> NoErr]

\* mutant: the Get error is returned as it is
GuardUnwrapped(err) ==
    IF err = NoErr
    THEN [proceed |-> FALSE, result |-> ErrorNew("Cannot create registry: already exists")]
    ELSE IF ~IsNotFound(err)
    THEN [proceed |-> FALSE, result |-> err]
    ELSE [proceed |-> TRUE, result |-> NoErr]

\* mutant: the test of err is inverted
GuardInverted(err) ==
    IF err # NoErr
    THEN [proceed |-> FALSE, result |-> ErrorNew("Cannot create registry: already exists")]
    ELSE [proceed |-> TRUE, result |-> NoErr]

\* lines 114-118: what run does with the err of controller.Get
ExistenceGuard(err) ==
    IF err = NoErr
    THEN [proceed |-> FALSE, result |-> ErrorNew("Cannot create registry: already exists")]
    ELSE IF err # NoErr /\ ~IsNotFound(err)
    THEN [proceed |-> FALSE, result |-> Errorf("Cannot check registry: ", err)]
    ELSE [proceed |-> TRUE, result |-> NoErr]

\* mutant: the Apply error is wrapped
ApplyFailureWrapped(err) == Errorf("Cannot create registry: ", err)

\* lines 121-123: the error run returns when Apply fails
ApplyFailure(err) == err

\* mutant: Apply is tried again after it failed
OnApplyErrorRetry == "Apply"

\* line 122: after an Apply error run returns (through the deferred flush)
OnApplyError == "defer"

\* mutant: the request value is printed
PrintedRequest(appl, r) == r

\* line 130: the object handed to printer.PrintObj
PrintedObject(appl, r) == appl

\* lines 90-93: os.Exit(1) on an error, a normal return (0) otherwise
ExitCode(res) == IF res # NoErr THEN 1 ELSE 0

----------------------------------------------------------------------------
(* Controller: Get answers from the set of existing registries or fails;   *)
(* Apply creates the registry and returns the realized resource or fails.  *)

GetAnswers(name) ==
    (IF name \in registries THEN {NoErr} ELSE {NotFoundErr(name)}) \cup OtherGetErrors

\* the realized resource: a requested port 0 is replaced by the bound port
Realize(r) == IF r.Port = 0 THEN [r EXCEPT !.Port = 5000] ELSE r

----------------------------------------------------------------------------
Call(op, name, r) == [op |-> op, name |-> name, reg |-> r]

Calls(p, op) == {i \in DOMAIN trace[p] : trace[p][i].op = op}

Count(p, op) == Cardinality(Calls(p, op))

Log(p, c) == trace' = [trace EXCEPT ![p] = Append(@, c)]

TypeOK ==
    /\ registries \subseteq Names
    /\ pc \in [Procs -> {"off", "PreRun", "Run", "newAnalytics", "Incr", "SetName",
                         "FillDefaults", "Get", "Apply", "ToPrinter", "PrintObj",
                         "defer", "return", "exited"}]
    /\ arg \in [Procs -> Names]
    /\ flags \in [Procs -> FlagValues]
    /\ gotten \in [Procs -> BOOLEAN]
    /\ staleAtApply \in [Procs -> BOOLEAN]
    /\ \A p \in Procs : Len(applied[p]) <= 1 /\ Len(exitCode[p]) <= 1

InitLocal ==
    /\ reg = [p \in Procs |-> ParseFlags(flags[p])]
    /\ getErr = [p \in Procs |-> NoErr]
    /\ gotten = [p \in Procs |-> FALSE]
    /\ applied = [p \in Procs |-> <<>>]
    /\ applyErr = [p \in Procs |-> NoErr]
    /\ printErr = [p \in Procs |-> NoErr]
    /\ result = [p \in Procs |-> NoErr]
    /\ exitCode = [p \in Procs |-> <<>>]
    /\ stdout = [p \in Procs |-> <<>>]
    /\ stderr = [p \in Procs |-> <<>>]
    /\ trace = [p \in Procs |-> <<>>]
    /\ telemetry = [p \in Procs |-> {}]
    /\ staleAtApply = [p \in Procs |-> FALSE]

\* One invocation with any name and flags, against a controller in any state.
Init ==
    /\ registries \in SUBSET Names
    /\ pc = [p \in Procs |-> IF p = 1 THEN "PreRun" ELSE "off"]
    /\ \E n \in Names : arg = [p \in Procs |-> n]
    /\ \E f \in FlagValues : flags = [p \in Procs |-> IF p = 1 THEN f ELSE DefaultFlags]
    /\ InitLocal

\* Concurrent invocations with default flags, against an empty controller.
InitRace ==
    /\ registries = {}
    /\ pc = [p \in Procs |-> "PreRun"]
    /\ arg \in [Procs -> Names]
    /\ flags = [p \in Procs |-> DefaultFlags]
    /\ InitLocal

----------------------------------------------------------------------------
(* Actions *)

\* cmd.PreRun, lines 68-77
PreRun(p) ==
    /\ pc[p] = "PreRun"
    /\ reg' = [reg EXCEPT ![p].Proxy = BuildProxy(flags[p])]
    /\ pc' = [pc EXCEPT ![p] = "Run"]
    /\ UNCHANGED <<registries, arg, flags, getErr, gotten, applied, applyErr, printErr, result, exitCode,
                   stdout, stderr, trace, telemetry, staleAtApply>>

\* Run, lines 83-87: registry.DefaultController
DefaultController(p) ==
    /\ pc[p] = "Run"
    /\ \/ /\ pc' = [pc EXCEPT ![p] = "newAnalytics"]
          /\ UNCHANGED <<stderr, exitCode>>
       \/ \E e \in ControllerErrors :
            /\ stderr' = [stderr EXCEPT ![p] = Append(@, e.msg)]
            /\ exitCode' = [exitCode EXCEPT ![p] = <<1>>]
            /\ pc' = [pc EXCEPT ![p] = "exited"]
    /\ UNCHANGED <<registries, arg, flags, reg, getErr, gotten, applied, applyErr, printErr, result,
                   stdout, trace, telemetry, staleAtApply>>

\* run, lines 102-105
NewAnalytics(p) ==
    /\ pc[p] = "newAnalytics"
    /\ \/ /\ pc' = [pc EXCEPT ![p] = "Incr"]
          /\ UNCHANGED <<result, telemetry>>
       \/ \E e \in AnalyticsErrors :
            /\ result' = [result EXCEPT ![p] = e]
            /\ telemetry' = [telemetry EXCEPT ![p] = @ \cup {"newAnalytics"}]
            /\ pc' = [pc EXCEPT ![p] = "return"]
    /\ UNCHANGED <<registries, arg, flags, reg, getErr, gotten, applied, applyErr, printErr, exitCode,
                   stdout, stderr, trace, staleAtApply>>

\* run, lines 106-107: a.Incr has no result, so whether the event got through
\* leaves no mark on the invocation; the flush is deferred from here on.
Incr(p) ==
    /\ pc[p] = "Incr"
    /\ Log(p, Call("Incr", "cmd.create.registry", <<>>))
    /\ pc' = [pc EXCEPT ![p] = "SetName"]
    /\ UNCHANGED <<registries, arg, flags, reg, getErr, gotten, applied, applyErr, printErr,
                   result, exitCode, stdout, stderr, telemetry, staleAtApply>>

\* run, line 109
SetName(p) ==
    /\ pc[p] = "SetName"
    /\ reg' = [reg EXCEPT ![p].Name = arg[p]]
    /\ Log(p, Call("SetName", arg[p], <<>>))
    /\ pc' = [pc EXCEPT ![p] = "FillDefaults"]
    /\ UNCHANGED <<registries, arg, flags, getErr, gotten, applied, applyErr, printErr, result, exitCode,
                   stdout, stderr, telemetry, staleAtApply>>

\* run, line 110
RunFillDefaults(p) ==
    /\ pc[p] = "FillDefaults"
    /\ reg' = [reg EXCEPT ![p] = FillDefaults(@)]
    /\ Log(p, Call("FillDefaults", reg[p].Name, <<>>))
    /\ pc' = [pc EXCEPT ![p] = "Get"]
    /\ UNCHANGED <<registries, arg, flags, getErr, gotten, applied, applyErr, printErr, result, exitCode,
                   stdout, stderr, telemetry, staleAtApply>>

\* run, lines 112-118: controller.Get and the classification of its error
Get(p) ==
    /\ pc[p] = "Get"
    /\ \E e \in GetAnswers(reg[p].Name) :
         /\ getErr' = [getErr EXCEPT ![p] = e]
         /\ result' = [result EXCEPT ![p] = ExistenceGuard(e).result]
         /\ pc' = [pc EXCEPT ![p] = IF ExistenceGuard(e).proceed THEN "Apply" ELSE "defer"]
    /\ gotten' = [gotten EXCEPT ![p] = TRUE]
    /\ Log(p, Call("Get", reg[p].Name, <<>>))
    /\ UNCHANGED <<registries, arg, flags, reg, applied, applyErr, printErr, exitCode, stdout, stderr,
                   telemetry, staleAtApply>>

\* run, lines 120-123: controller.Apply
Apply(p) ==
    /\ pc[p] = "Apply"
    /\ Log(p, Call("Apply", reg[p].Name, <<reg[p]>>))
    /\ staleAtApply' = [staleAtApply EXCEPT ![p] = reg[p].Name \in registries]
    /\ \/ /\ registries' = registries \cup {reg[p].Name}
          /\ applied' = [applied EXCEPT ![p] = <<Realize(reg[p])>>]
          /\ pc' = [pc EXCEPT ![p] = "ToPrinter"]
          /\ UNCHANGED <<result, applyErr>>
       \/ \E e \in ApplyErrors :
            /\ applyErr' = [applyErr EXCEPT ![p] = e]
            /\ result' = [result EXCEPT ![p] = ApplyFailure(e)]
            /\ pc' = [pc EXCEPT ![p] = OnApplyError]
            /\ UNCHANGED <<registries, applied>>
    /\ UNCHANGED <<arg, flags, reg, getErr, gotten, printErr, exitCode, stdout, stderr,
                   telemetry>>

\* run, lines 125-128: o.PrintFlags.ToPrinter
ToPrinter(p) ==
    /\ pc[p] = "ToPrinter"
    /\ Log(p, Call("ToPrinter", "", <<>>))
    /\ \/ /\ pc' = [pc EXCEPT ![p] = "PrintObj"]
          /\ UNCHANGED <<result, printErr>>
       \/ \E e \in PrinterErrors :
            /\ printErr' = [printErr EXCEPT ![p] = e]
            /\ result' = [result EXCEPT ![p] = e]
            /\ pc' = [pc EXCEPT ![p] = "defer"]
    /\ UNCHANGED <<registries, arg, flags, reg, getErr, gotten, applied, applyErr,
                   exitCode, stdout, stderr, telemetry, staleAtApply>>

\* run, line 130: printer.PrintObj(applied, o.Out)
PrintObj(p) ==
    /\ pc[p] = "PrintObj"
    /\ Log(p, Call("PrintObj", "", <<PrintedObject(applied[p][1], reg[p])>>))
    /\ \/ /\ stdout' = [stdout EXCEPT ![p] = Append(@, PrintedObject(applied[p][1], reg[p]))]
          /\ UNCHANGED <<result, printErr>>
       \/ \E e \in PrinterErrors :
            /\ printErr' = [printErr EXCEPT ![p] = e]
            /\ result' = [result EXCEPT ![p] = e]
            /\ UNCHANGED stdout
    /\ pc' = [pc EXCEPT ![p] = "defer"]
    /\ UNCHANGED <<registries, arg, flags, reg, getErr, gotten, applied, applyErr,
                   exitCode, stderr, telemetry, staleAtApply>>

\* run, line 107: the deferred a.Flush(time.Second); its error is dropped
Flush(p) ==
    /\ pc[p] = "defer"
    /\ Log(p, Call("Flush", "1s", <<>>))
    /\ \E failed \in BOOLEAN :
         telemetry' = [telemetry EXCEPT ![p] = IF failed THEN @ \cup {"Flush"} ELSE @]
    /\ pc' = [pc EXCEPT ![p] = "return"]
    /\ UNCHANGED <<registries, arg, flags, reg, getErr, gotten, applied, applyErr, printErr, result,
                   exitCode, stdout, stderr, staleAtApply>>

\* Run, lines 89-94
Exit(p) ==
    /\ pc[p] = "return"
    /\ stderr' = [stderr EXCEPT ![p] = IF result[p] # NoErr THEN Append(@, result[p].msg) ELSE @]
    /\ exitCode' = [exitCode EXCEPT ![p] = <<ExitCode(result[p])>>]
    /\ pc' = [pc EXCEPT ![p] = "exited"]
    /\ UNCHANGED <<registries, arg, flags, reg, getErr, gotten, applied, applyErr, printErr, result,
                   stdout, trace, telemetry, staleAtApply>>

Step(p) ==
    \/ PreRun(p)
    \/ DefaultController(p)
    \/ NewAnalytics(p)
    \/ Incr(p)
    \/ SetName(p)
    \/ RunFillDefaults(p)
    \/ Get(p)
    \/ Apply(p)
    \/ ToPrinter(p)
    \/ PrintObj(p)
    \/ Flush(p)
    \/ Exit(p)

Next == \E p \in Procs : Step(p)

Spec == Init /\ [][Next]_vars

SpecRace == InitRace /\ [][Next]_vars

----------------------------------------------------------------------------
(* Vocabulary of the properties *)

\* Run stopped at line 86: the controller could not be constructed
CtorFailed(p) == pc[p] = "exited" /\ result[p] = NoErr /\ trace[p] = <<>>

\* run was entered and has returned
RunReturned(p) == pc[p] = "return" \/ (pc[p] = "exited" /\ ~CtorFailed(p))

GetFound(p) == gotten[p] /\ getErr[p] = NoErr

GetNotFound(p) == gotten[p] /\ IsNotFound(getErr[p])

GetFailed(p) == gotten[p] /\ getErr[p] # NoErr /\ ~IsNotFound(getErr[p])

\* the Registry values passed to controller.Apply
Submitted(p) == {trace[p][i].reg[1] : i \in Calls(p, "Apply")}

AnyProxyFlag(f) ==
    f.proxyRemoteURL # "" \/ f.proxyUsername # "" \/ f.proxyPassword # "" \/ f.proxyTTL # ""

Pipeline == <<"Incr", "SetName", "FillDefaults", "Get", "Apply", "ToPrinter", "PrintObj", "Flush">>

Rank(op) == CHOOSE i \in DOMAIN Pipeline : Pipeline[i] = op

\* what run returns when only the controller and the printer decide
WorkflowResult(p) ==
    IF ~ExistenceGuard(getErr[p]).proceed THEN ExistenceGuard(getErr[p]).result
    ELSE IF applyErr[p] # NoErr THEN applyErr[p]
    ELSE printErr[p]

----------------------------------------------------------------------------
(* Properties *)

C2_FoundAborts ==
    [][\A p \in Procs :
         GetFound(p)' =>
            /\ Count(p, "Apply")' = 0
            /\ registries' = registries
            /\ stdout'[p] = <<>>
            /\ applied'[p] = <<>>
            /\ result'[p] = ErrorNew("Cannot create registry: already exists")]_vars

C2_Witness ==
    \E p \in Procs :
        /\ pc[p] = "exited" /\ GetFound(p) /\ exitCode[p] = <<1>>
        /\ stderr[p] = <<(<<"Cannot create registry: already exists">>)>>

\* C3: when Get returns an error that is not not-found, Apply is never called
\* and run returns "Cannot check registry: " followed by the error's text;
\* Apply is called only after a not-found error.
C3_CheckFailureAborts ==
    \A p \in Procs :
        /\ GetFailed(p) =>
              /\ Count(p, "Apply") = 0
              /\ result[p].msg = <<"Cannot check registry: ">> \o getErr[p].msg
        /\ Count(p, "Apply") > 0 => GetNotFound(p)

C3_Witness ==
    \E p \in Procs :
        /\ pc[p] = "exited" /\ GetFailed(p)
        /\ result[p].msg = <<"Cannot check registry: ", "connection refused">>

\* C4: when Apply returns an error, run returns that very error, the printer
\* is never obtained nor invoked, nothing is written to standard output and
\* Apply is not called again.
C4_ApplyErrorVerbatim ==
    \A p \in Procs :
        applyErr[p] # NoErr =>
            /\ result[p] = applyErr[p]
            /\ Count(p, "Apply") = 1
            /\ Count(p, "ToPrinter") = 0
            /\ Count(p, "PrintObj") = 0
            /\ stdout[p] = <<>>

C4_Witness ==
    \E p \in Procs :
        /\ pc[p] = "exited" /\ applyErr[p] \in ApplyErrors /\ exitCode[p] = <<1>>
        /\ stderr[p] = <<applyErr[p].msg>>

\* C5: telemetry failures never affect the outcome: whenever run has returned,
\* it has called Get once and its result is the one the controller's and the
\* printer's answers decide.
C5_TelemetryNeverAffectsOutcome ==
    \A p \in Procs :
        RunReturned(p) => Count(p, "Get") = 1 /\ result[p] = WorkflowResult(p)

\* C6: in every execution of run exactly one usage-counter event is emitted,
\* before Get is called, and the flush has happened when run returns.
C6_OneEventAndFlush ==
    \A p \in Procs :
        /\ \A i \in Calls(p, "Get") : \E j \in Calls(p, "Incr") : j < i
        /\ RunReturned(p) => Count(p, "Incr") = 1 /\ Count(p, "Flush") = 1

\* C7: the process ends with code 0 only when Apply succeeded and the resource
\* Apply returned was printed to standard output; every failure ends it with
\* one diagnostic line on standard error and a non-zero code.
C7_BinaryOutcome ==
    \A p \in Procs :
        pc[p] = "exited" =>
            /\ exitCode[p] \in {<<0>>, <<1>>}
            /\ exitCode[p] = <<0>> =>
                  /\ applied[p] # <<>> /\ applyErr[p] = NoErr /\ printErr[p] = NoErr
                  /\ stdout[p] = applied[p]
                  /\ stderr[p] = <<>>
            /\ exitCode[p] = <<1>> => Len(stderr[p]) = 1
            /\ (CtorFailed(p) \/ GetFound(p) \/ GetFailed(p) \/ applyErr[p] # NoErr
                \/ printErr[p] # NoErr) => exitCode[p] = <<1>>

C7_Witness ==
    \E p \in Procs :
        /\ pc[p] = "exited" /\ exitCode[p] = <<0>>
        /\ applied[p] # <<reg[p]>>
        /\ stdout[p] = applied[p]

C9_ApplyOnStaleCheck ==
    \A q \in Procs :
        /\ Count(q, "Apply") > 0 => GetNotFound(q) /\ Count(q, "Get") = 1
        /\ staleAtApply[q] =>
              \E p \in Procs \ {q} : arg[p] = arg[q] /\ applied[p] # <<>>

C9_BothApply ==
    \E p, q \in Procs :
        /\ p # q /\ arg[p] = arg[q]
        /\ GetNotFound(p) /\ GetNotFound(q)
        /\ Count(p, "Apply") = 1 /\ Count(q, "Apply") = 1
        /\ applied[p] # <<>>
        /\ staleAtApply[q]

============================================================================
